---- MODULE Spec2Model ----
(***************************************************************************)
(* StreamTo: the encoder process supervisor (backend/ffmpegController.js)  *)
(* and the WebSocket boundary that drives it (main.js).                    *)
(*                                                                         *)
(* One WebSocket connection is open from the initial state on.  Every      *)
(* 'start' message is one call of startStream; call c spawns at most one   *)
(* encoder process, which is named c as well.  Node runs every callback to *)
(* completion, so each action below is one callback: a message handler up  *)
(* to its first await, the completion of the version probe with the spawn  *)
(* that follows it, a timer callback, a process 'exit' event.  The stderr  *)
(* text a process has accumulated when it exits is an input of its 'exit'  *)
(* event.                                                                  *)
(***************************************************************************)
EXTENDS Integers, Sequences, FiniteSets, TLC

\* ------------------------------------------------------------------ bounds
MaxCalls == 2
MaxStops == 1
MaxChunks == 2
MaxErrors == 2
MaxSaved == 3

\* --------------------------------------------------------------- constants
NoProc == 0
NullCode == -1

Calls == 1..MaxCalls
Sessions == 0..MaxCalls

AlreadyRunningMsg == "Stream already running"
InvalidRequestMsg == "Missing video, audio, or RTMP destinations"
TypeErrorMsg == "Cannot read properties of undefined (reading 'length')"
MissingBinaryMsg == "FFmpeg not found. Please install FFmpeg and add it to your PATH."
StartupFailedMsg == "FFmpeg failed to start - check device names and RTMP URL"
SpawnErrorMsg == "FFmpeg spawn error"
SpawnThrowMsg == "Failed to start FFmpeg"
NoError == ""
Resolved == "resolved"

VARIABLES
  currentProc,   \* the slot: NoProc or the process it holds
  exitHandlers,  \* sequence of registered exit handlers (the call that registered each)
  pc,            \* position of each startStream call
  probe,         \* outcome of each call's version probe
  result,        \* how each call's promise settled, or the message it threw
  req,           \* the request of each call
  procState,     \* "none" | "running" | "exited" | "failed" per process
  killed,        \* ChildProcess.killed per process
  signals,       \* signals delivered to each process
  exitCode,      \* exit code of each exited process (NullCode: signal only)
  timers,        \* pending 2000 ms timers, in the order they were armed
  sent,          \* messages sent on the connection, in order, per session they are about
  recent,        \* the status shown before the last sending step, then the statuses it sent
  stops,         \* number of 'stop' messages handled
  quiet,         \* calls begun with no stop message and no process exit since
  exitedEarly,   \* processes whose exit came while their liveness timer was pending
  argv,          \* the argument vector each call passed to spawn (<<>>: none yet)
  lastData,      \* the last 'data' event hookLogs handled and what it emitted for it
  lastClassified, \* the last stderr text the 'exit' listener classified, and the message
  listing,       \* one listDevices call: its position, its promise and the text it parsed
  errorOutputs, \* the text the stderr listener of each call has accumulated (its errorOutput)
  greeting, \* the status sent to an observer that connected later ("none": nobody has)
  ui, \* the frontend: last status received, status display, buttons, isStreaming, pending error timers
  rtmpUrls  \* the frontend's list of configured destinations

vars == <<currentProc, exitHandlers, pc, probe, result, req, procState, killed,
          signals, exitCode, timers, sent, recent, stops, quiet, exitedEarly, argv, lastData,
          lastClassified, listing, errorOutputs, greeting, ui, rtmpUrls>>

\* ---------------------------------------------------------------- requests
NoRtmps == <<>>
Request(v, a, has, r) == [video |-> v, audio |-> a, hasRtmps |-> has, rtmps |-> r]

\* Every shape of request: each device name empty or not, the destination list
\* absent, empty, of one or of two URLs.
AllRequests ==
  { Request(v, a, TRUE, r) :
      v \in {"", "cam"}, a \in {"", "mic"},
      r \in {NoRtmps, <<"rtmp://a/live">>, <<"rtmp://a/live", "rtmps://b/live">>} }
    \cup { Request(v, a, FALSE, NoRtmps) : v \in {"", "cam"}, a \in {"", "mic"} }

\* One request for each way startStream treats a request.
Requests ==
  { Request("cam", "mic", TRUE, <<"rtmp://a/live">>),
    Request("", "mic", TRUE, <<"rtmp://a/live">>),
    Request("cam", "mic", FALSE, NoRtmps) }

NoRequest == Request("", "", FALSE, NoRtmps)

\* The requests the spec calls invalid.
Malformed(o) == o.video = "" \/ o.audio = "" \/ ~o.hasRtmps \/ Len(o.rtmps) = 0

\* ------------------------------------------------------------- supervisor
isStreaming == currentProc # NoProc

AlreadyRunningNever == FALSE
AlreadyRunning == currentProc # NoProc

\* !video || !audio || !rtmps.length, evaluated left to right: reading .length
\* of an absent list throws a TypeError.
ValidationThrow(o) ==
  IF o.video = "" \/ o.audio = "" THEN InvalidRequestMsg
  ELSE IF ~o.hasRtmps THEN TypeErrorMsg
  ELSE IF Len(o.rtmps) = 0 THEN InvalidRequestMsg
  ELSE NoError

\* The message startStream throws synchronously, NoError when it goes on.
startStreamThrows(o) ==
  IF AlreadyRunning THEN AlreadyRunningMsg ELSE ValidationThrow(o)

ffmpegAvailableAlways(ok) == TRUE
ffmpegAvailable(ok) == ok

\* ChildProcess.kill delivers a signal only to a process that still runs.
KillDelivers(p) == procState[p] = "running"

SlotAfterStopKept == currentProc
SlotAfterStop == NoProc

SlotAfterExitKeptOnFailure(code) ==
  IF code # 0 /\ code # NullCode THEN currentProc ELSE NoProc

\* The 'exit' listener clears the slot whatever the exit code.
SlotAfterExit(code) == NoProc

AccumulatorShared(p) == 1

\* The errorOutput that the listeners of process p append to and read: the
\* variable of the call that spawned p.
Accumulator(p) == p

\* ---------------------------------------------------------- command builder
\* A string is a sequence of pieces: the literal parts of a template and the
\* request strings put into it. An argument vector is a sequence of strings.
Str(s) == <<s>>
Words(ws) == [i \in DOMAIN ws |-> Str(ws[i])]

inputStringVideoOnly(o) == <<"video=">> \o Str(o.video)

\* `video=${video}:audio=${audio}`
inputString(o) == <<"video=">> \o Str(o.video) \o <<":audio=">> \o Str(o.audio)

\* url => `[f=flv:onfail=ignore]${url}`
teeSlave(url) == <<"[f=flv:onfail=ignore]">> \o Str(url)

Range(f) == {f[i] : i \in DOMAIN f}

\* Array.prototype.join
RECURSIVE join(_, _)
join(strs, sep) ==
  IF strs = <<>> THEN <<>>
  ELSE IF Len(strs) = 1 THEN Head(strs)
  ELSE Head(strs) \o <<sep>> \o join(Tail(strs), sep)

\* The parts of string t between the pieces sep.
RECURSIVE Split(_, _)
Split(t, sep) ==
  IF \A i \in DOMAIN t : t[i] # sep THEN <<t>>
  ELSE LET i == CHOOSE k \in DOMAIN t : t[k] = sep /\ \A j \in 1..(k - 1) : t[j] # sep
       IN <<SubSeq(t, 1, i - 1)>> \o Split(SubSeq(t, i + 1, Len(t)), sep)

teeOutput(rtmps) == join([i \in DOMAIN rtmps |-> teeSlave(rtmps[i])], "|")

singleDestinationAlways(o) == TRUE

\* rtmps.length === 1
singleDestination(o) == Len(o.rtmps) = 1

buildArgs(o) ==
  IF singleDestination(o)
    THEN Words(<<"-y", "-f", "dshow", "-rtbufsize", "100M", "-i">>)
           \o <<inputString(o)>>
           \o Words(<<"-c:v", "libx264", "-preset", "ultrafast", "-tune", "zerolatency",
                      "-pix_fmt", "yuv420p", "-b:v", "800k", "-maxrate", "800k",
                      "-bufsize", "1600k", "-g", "50", "-r", "25", "-c:a", "aac",
                      "-b:a", "128k", "-f", "flv">>)
           \o <<Str(o.rtmps[1])>>
    ELSE Words(<<"-y", "-f", "dshow", "-rtbufsize", "200M", "-i">>)
           \o <<inputString(o)>>
           \o Words(<<"-c:v", "libx264", "-preset", "ultrafast", "-tune", "zerolatency",
                      "-pix_fmt", "yuv420p", "-b:v", "600k", "-maxrate", "600k",
                      "-bufsize", "1200k", "-g", "50", "-r", "20", "-c:a", "aac",
                      "-b:a", "96k", "-f", "tee", "-map", "0:v", "-map", "0:a">>)
           \o <<teeOutput(o.rtmps)>>

\* -------------------------------------------------------- error classifier
RECURSIVE Includes(_, _)
Includes(text, pat) ==
  IF text = <<>> THEN FALSE
  ELSE IF Head(text) = pat THEN TRUE ELSE Includes(Tail(text), pat)

GenericFailure == "Streaming failed - check logs for details"

classifyRefusedAfterPermission(text) ==
  IF Includes(text, "Error in the pull function") \/ Includes(text, "IO error: End of file")
    THEN "RTMP connection failed - check stream key and network connection"
  ELSE IF Includes(text, "Error number -10053")
    THEN "Network connection lost - one RTMP server may be unreachable"
  ELSE IF Includes(text, "No such file or directory")
    THEN "Device not found - camera or microphone unavailable"
  ELSE IF Includes(text, "Permission denied")
    THEN "Device access denied - check permissions"
  ELSE IF Includes(text, "Connection refused")
    THEN "RTMP server connection refused - check URL and network"
  ELSE IF Includes(text, "already in use") \/ Includes(text, "Could not run graph")
    THEN "Device busy - close other applications using camera/mic (Chrome, Skype, Teams, etc.)"
  ELSE IF Includes(text, "Could not find audio only device")
    THEN "Audio device not found - try refreshing devices or check microphone connection"
  ELSE IF Includes(text, "Invalid data found")
    THEN "Invalid RTMP stream key or URL format"
  ELSE IF Includes(text, "real-time buffer") /\ Includes(text, "too full")
    THEN "Camera buffer overflow - try reducing video quality or closing other apps"
  ELSE IF Includes(text, "baseline profile doesn't support")
    THEN "Camera format incompatible - switching to main profile"
  ELSE IF Includes(text, "Error setting profile")
    THEN "Video encoding profile error - using compatible settings"
  ELSE GenericFailure

classifyAudioWithDevices(text) ==
  IF Includes(text, "Error in the pull function") \/ Includes(text, "IO error: End of file")
    THEN "RTMP connection failed - check stream key and network connection"
  ELSE IF Includes(text, "Error number -10053")
    THEN "Network connection lost - one RTMP server may be unreachable"
  ELSE IF Includes(text, "Connection refused")
    THEN "RTMP server connection refused - check URL and network"
  ELSE IF Includes(text, "No such file or directory")
    THEN "Device not found - camera or microphone unavailable"
  ELSE IF Includes(text, "Could not find audio only device")
    THEN "Audio device not found - try refreshing devices or check microphone connection"
  ELSE IF Includes(text, "Permission denied")
    THEN "Device access denied - check permissions"
  ELSE IF Includes(text, "already in use") \/ Includes(text, "Could not run graph")
    THEN "Device busy - close other applications using camera/mic (Chrome, Skype, Teams, etc.)"
  ELSE IF Includes(text, "Invalid data found")
    THEN "Invalid RTMP stream key or URL format"
  ELSE IF Includes(text, "real-time buffer") /\ Includes(text, "too full")
    THEN "Camera buffer overflow - try reducing video quality or closing other apps"
  ELSE IF Includes(text, "baseline profile doesn't support")
    THEN "Camera format incompatible - switching to main profile"
  ELSE IF Includes(text, "Error setting profile")
    THEN "Video encoding profile error - using compatible settings"
  ELSE GenericFailure

\* The if / else-if chain of the 'exit' listener.
classify(text) ==
  IF Includes(text, "Error in the pull function") \/ Includes(text, "IO error: End of file")
    THEN "RTMP connection failed - check stream key and network connection"
  ELSE IF Includes(text, "Error number -10053")
    THEN "Network connection lost - one RTMP server may be unreachable"
  ELSE IF Includes(text, "Connection refused")
    THEN "RTMP server connection refused - check URL and network"
  ELSE IF Includes(text, "No such file or directory")
    THEN "Device not found - camera or microphone unavailable"
  ELSE IF Includes(text, "Permission denied")
    THEN "Device access denied - check permissions"
  ELSE IF Includes(text, "already in use") \/ Includes(text, "Could not run graph")
    THEN "Device busy - close other applications using camera/mic (Chrome, Skype, Teams, etc.)"
  ELSE IF Includes(text, "Could not find audio only device")
    THEN "Audio device not found - try refreshing devices or check microphone connection"
  ELSE IF Includes(text, "Invalid data found")
    THEN "Invalid RTMP stream key or URL format"
  ELSE IF Includes(text, "real-time buffer") /\ Includes(text, "too full")
    THEN "Camera buffer overflow - try reducing video quality or closing other apps"
  ELSE IF Includes(text, "baseline profile doesn't support")
    THEN "Camera format incompatible - switching to main profile"
  ELSE IF Includes(text, "Error setting profile")
    THEN "Video encoding profile error - using compatible settings"
  ELSE GenericFailure

ExitMessageAnyNonZero(code, text) ==
  IF code # 0 THEN classify(text) ELSE NoError

\* The third argument the exit handlers get: NoError when none is passed.
ExitMessage(code, text) ==
  IF code # 0 /\ code # NullCode THEN classify(text) ELSE NoError

\* The accumulated stderr text of an exiting process, a sequence of diagnostics.
ExitTexts == {<<"Connection refused">>}
ExitCodes == {0, 1, NullCode}

\* ------------------------------------------------------ WebSocket boundary
\* A message about session c; `by` is the exit handler that sent it (the call
\* that registered it), NoProc when the message handler itself sent it.
Status(s, c) == [type |-> "status", payload |-> s, about |-> c, by |-> NoProc]
Error(m, c) == [type |-> "error", payload |-> m, about |-> c, by |-> NoProc]

\* The catch block of the 'start' branch.
StartFailed(m, c) == <<Error(m, c), Status("idle", c)>>

\* The exit handler h registered by the 'start' branch, run for the exit of p.
HandlerSends(h, code, msg, p) ==
  (IF code # 0 /\ msg # NoError THEN <<[Error(msg, p) EXCEPT !.by = h]>> ELSE <<>>)
    \o <<[Status("stopped", p) EXCEPT !.by = h]>>

RECURSIVE DispatchNewestFirst(_, _, _, _)
DispatchNewestFirst(hs, code, msg, p) ==
  IF hs = <<>> THEN <<>>
  ELSE DispatchNewestFirst(Tail(hs), code, msg, p) \o HandlerSends(Head(hs), code, msg, p)

\* exitHandlers.forEach(h => h(code, signal, errorMessage))
RECURSIVE Dispatch(_, _, _, _)
Dispatch(hs, code, msg, p) ==
  IF hs = <<>> THEN <<>>
  ELSE HandlerSends(Head(hs), code, msg, p) \o Dispatch(Tail(hs), code, msg, p)

Timer(k, i) == [kind |-> k, id |-> i]

Last(s) == s[Len(s)]

RECURSIVE Statuses(_)
Statuses(msgs) ==
  IF msgs = <<>> THEN <<>>
  ELSE (IF Head(msgs).type = "status" THEN <<Head(msgs).payload>> ELSE <<>>)
         \o Statuses(Tail(msgs))

\* ws.send of msgs, all about session c, in order.
Send(msgs, c) ==
  /\ sent' = [sent EXCEPT ![c] = @ \o msgs]
  /\ recent' = IF Statuses(msgs) = <<>> THEN recent
                ELSE <<Last(recent)>> \o Statuses(msgs)

\* ------------------------------------------------------------ output parser
\* Encoder output is a sequence of pieces: words, blanks, line feeds and the
\* key=value tokens of a progress line. A token holds a number (its digits
\* before and after the point, the unit that follows), a clock time
\* HH:MM:SS.ff, or text that is no number.
NoFrac == -1
Piece(kind, key, text, whole, tenths, unit, mm, ss) ==
  [kind |-> kind, key |-> key, text |-> text, whole |-> whole, tenths |-> tenths,
   unit |-> unit, mm |-> mm, ss |-> ss]
Text(s) == Piece("text", "", s, 0, NoFrac, "", 0, 0)
Blank == Piece("space", "", " ", 0, NoFrac, "", 0, 0)
LF == Piece("nl", "", "LF", 0, NoFrac, "", 0, 0)
NumTok(key, whole, tenths, unit) == Piece("num", key, "", whole, tenths, unit, 0, 0)
ClockTok(key, hh, mm, ss, ff) == Piece("clock", key, "", hh, ff, "", mm, ss)
NaTok(key) == Piece("na", key, "N/A", 0, NoFrac, "", 0, 0)

\* String.prototype.includes for the substrings the code looks for.
Contains(line, str) ==
  \E i \in DOMAIN line :
    /\ line[i].kind = "text"
    /\ \/ line[i].text = str
       \/ str = "repeated" /\ line[i].text = "Last message repeated"
HasToken(line, key) == \E i \in DOMAIN line : line[i].key = key

\* String.prototype.trim
RECURSIVE trim(_)
trim(l) ==
  IF l = <<>> THEN <<>>
  ELSE IF Head(l).kind = "space" THEN trim(Tail(l))
  ELSE IF l[Len(l)].kind = "space" THEN trim(SubSeq(l, 1, Len(l) - 1))
  ELSE l

\* The six regular expressions of parseFFmpegStats, each on one token.
frameRe(p) == p.key = "frame" /\ p.kind = "num"
fpsRe(p) == p.key = "fps" /\ p.kind = "num"
bitrateRe(p) == p.key = "bitrate" /\ p.kind = "num" /\ p.unit = "kbits/s"
timeRe(p) == p.key = "time" /\ p.kind = "clock"
sizeRe(p) == p.key = "size" /\ p.kind = "num" /\ p.tenths = NoFrac /\ p.unit = "kB"
speedRe(p) == p.key = "speed" /\ p.kind = "num" /\ p.unit = "x"

\* String.prototype.match: the first token the expression accepts, 0 for null.
match(line, Re(_)) ==
  LET I == {i \in DOMAIN line : Re(line[i])}
  IN IF I = {} THEN 0 ELSE CHOOSE i \in I : \A j \in I : i <= j

\* A JavaScript number with one decimal.
Number(whole, tenths) == [whole |-> whole, tenths |-> tenths]
parseInt(p) == Number(p.whole, 0)
parseFloat(p) == Number(p.whole, IF p.tenths = NoFrac THEN 0 ELSE p.tenths)

Null == [null |-> TRUE]

requiredTokenNever(fpsMatch, bitrateMatch, timeMatch) == FALSE

\* if (!fpsMatch && !bitrateMatch && !timeMatch) return null
noRequiredToken(fpsMatch, bitrateMatch, timeMatch) ==
  fpsMatch = 0 /\ bitrateMatch = 0 /\ timeMatch = 0

durationWithHundredths(p) == Number(p.whole * 3600 + p.mm * 60 + p.ss, p.tenths \div 10)

\* hours * 3600 + minutes * 60 + seconds
duration(p) == Number(p.whole * 3600 + p.mm * 60 + p.ss, 0)

parseFFmpegStats(line) ==
  LET frameMatch == match(line, frameRe)
      fpsMatch == match(line, fpsRe)
      bitrateMatch == match(line, bitrateRe)
      timeMatch == match(line, timeRe)
      sizeMatch == match(line, sizeRe)
      speedMatch == match(line, speedRe)
      fields == (IF frameMatch # 0 THEN {"frame"} ELSE {})
                  \cup (IF fpsMatch # 0 THEN {"fps"} ELSE {})
                  \cup (IF bitrateMatch # 0 THEN {"bitrate"} ELSE {})
                  \cup (IF sizeMatch # 0 THEN {"size"} ELSE {})
                  \cup (IF speedMatch # 0 THEN {"speed"} ELSE {})
                  \cup (IF timeMatch # 0 THEN {"duration"} ELSE {})
  IN IF noRequiredToken(fpsMatch, bitrateMatch, timeMatch) THEN Null
     ELSE [f \in fields |->
             CASE f = "frame" -> parseInt(line[frameMatch])
               [] f = "fps" -> parseFloat(line[fpsMatch])
               [] f = "bitrate" -> parseFloat(line[bitrateMatch])
               [] f = "size" -> parseInt(line[sizeMatch])
               [] f = "speed" -> parseFloat(line[speedMatch])
               [] f = "duration" -> duration(line[timeMatch])]

BufferWarning == "Camera buffer warning - consider reducing quality if persistent"

\* What the stderr listener of hookLogs passes to statsCallback for one line.
statsFor(line) ==
  IF HasToken(line, "frame") /\ HasToken(line, "fps") /\ HasToken(line, "bitrate")
    THEN (IF parseFFmpegStats(line) # Null THEN <<parseFFmpegStats(line)>> ELSE <<>>)
    ELSE <<>>

displayForAll(line) == <<line>>

\* What the stderr listener of hookLogs passes to cb for one line.
displayFor(line) ==
  IF /\ ~Contains(line, "Last message repeated")
     /\ ~(Contains(line, "real-time buffer") /\ Contains(line, "frame dropped"))
    THEN <<line>>
  ELSE IF Contains(line, "real-time buffer") /\ ~Contains(line, "repeated")
    THEN << <<Text(BufferWarning)>> >>
  ELSE <<>>

RECURSIVE concat(_)
concat(seqs) == IF seqs = <<>> THEN <<>> ELSE Head(seqs) \o concat(Tail(seqs))

\* output.split(/\r?\n/).forEach: the calls made for the non-blank lines of a
\* chunk, in order, each with the index of the line it was made for.
forEachLine(lines, Calls_(_)) ==
  concat([i \in DOMAIN lines |->
            IF trim(lines[i]) # <<>>
              THEN LET out == Calls_(trim(lines[i]))
                   IN [k \in DOMAIN out |-> [of |-> i, value |-> out[k]]]
              ELSE <<>>])

NoData == [stream |-> "none", chunk |-> <<>>, display |-> <<>>, stats |-> <<>>]

\* ------------------------------------------------------------ device listing
\* A line of the listing command's output, by the parts the expression of
\* parseDevices looks at: the bracketed tag the trimmed line starts with ("":
\* none), whether a quoted name follows the tag, the name, and the word in
\* parentheses after the name ("": none).
DeviceLine(tag, quoted, name, type) ==
  [tag |-> tag, quoted |-> quoted, name |-> name, type |-> type]

EmptyLine == DeviceLine("", FALSE, "", "")

\* /^\[dshow[^\]]*\]\s+"([^"]+)"\s+\((video|audio|none)\)/: groups 1 and 2, or
\* Null.
deviceMatch(trimmed) ==
  IF /\ trimmed.tag = "dshow"
     /\ trimmed.quoted
     /\ trimmed.name # ""
     /\ trimmed.type \in {"video", "audio", "none"}
    THEN <<trimmed.name, trimmed.type>>
    ELSE Null

\* The loop of parseDevices over the lines left, with the lists so far.
RECURSIVE parseLines(_, _, _)
parseLines(lines, video, audio) ==
  IF lines = <<>> THEN [video |-> video, audio |-> audio]
  ELSE LET m == deviceMatch(Head(lines))
       IN IF m = Null THEN parseLines(Tail(lines), video, audio)
          ELSE IF m[2] = "video" /\ ~Includes(video, m[1])
            THEN parseLines(Tail(lines), Append(video, m[1]), audio)
          ELSE IF m[2] = "audio" /\ ~Includes(audio, m[1])
            THEN parseLines(Tail(lines), video, Append(audio, m[1]))
          ELSE parseLines(Tail(lines), video, audio)

\* ffout is the text as its lines: split(/\r?\n/) of a text gives at least one.
parseDevices(ffout) == parseLines(ffout, <<>>, <<>>)

MockDevices ==
  [video |-> <<"Integrated Camera", "USB Camera", "Virtual Camera">>,
   audio |-> <<"Microphone (Built-in)", "USB Microphone", "Line In">>]

DefaultDevices == [video |-> <<"Default Camera">>, audio |-> <<"Default Microphone">>]

devicesAsParsed(devices) == devices

\* What the listing callback resolves with for the parsed lists.
devicesOrFallback(devices) ==
  IF Len(devices.video) = 0 /\ Len(devices.audio) = 0 THEN DefaultDevices ELSE devices

NotListing == [pc |-> "none", promise |-> "none", value |-> Null, txt |-> <<>>]

\* ------------------------------------------------------------------ frontend
\* updateStatus(status) applied to the display u.
updateStatus(u, status) ==
  CASE status \in {"idle", "stopped"} ->
         [u EXCEPT !.indicator = "status-idle", !.text = "Idle",
                   !.startDisabled = FALSE, !.stopDisabled = TRUE, !.isStreaming = FALSE]
    [] status = "starting" ->
         [u EXCEPT !.indicator = "status-stopping", !.text = "Starting...",
                   !.startDisabled = TRUE, !.stopDisabled = TRUE]
    [] status = "streaming" ->
         [u EXCEPT !.indicator = "status-streaming", !.text = "Streaming",
                   !.startDisabled = TRUE, !.stopDisabled = FALSE, !.isStreaming = TRUE]
    [] status = "stopping" ->
         [u EXCEPT !.indicator = "status-stopping", !.text = "Stopping...",
                   !.startDisabled = TRUE, !.stopDisabled = TRUE]
    [] OTHER -> [u EXCEPT !.indicator = ""]

\* The page after the status the server sends on connection, 'idle', was shown.
InitialUi ==
  updateStatus([last |-> "idle", indicator |-> "", text |-> "", startDisabled |-> FALSE,
                stopDisabled |-> FALSE, isStreaming |-> FALSE, errorTimers |-> 0,
                lastError |-> ""],
               "idle")

\* showError(message) applied to the display u: 'Error' is shown, the message
\* is logged and a 5000 ms timer is armed.
showError(u, message) ==
  [u EXCEPT !.indicator = "status-error", !.text = "Error", !.lastError = message,
            !.errorTimers = @ + 1]

EnterUrlMsg == "Please enter an RTMP URL"
EnterKeyMsg == "Please enter your stream key"
DuplicateUrlMsg == "This RTMP destination is already added. Each stream key must be unique."
DuplicateKeyMsg == "stream key is already added. Use a different stream key."

NoKey == ""
platformUrls(platform) ==
  CASE platform = "youtube" -> "rtmps://a.rtmp.youtube.com/live2/"
    [] platform = "facebook" -> "rtmps://live-api-s.facebook.com:443/rtmp/"
    [] platform = "twitch" -> "rtmp://live.twitch.tv/app/"

platformNames(platform) ==
  CASE platform = "youtube" -> "YouTube Live"
    [] platform = "facebook" -> "Facebook Live"
    [] platform = "twitch" -> "Twitch"
    [] OTHER -> "Custom RTMP"

\* The URL saveRTMP builds; a URL is the sequence of the strings it is made of.
finalUrl(platform, customUrl, streamKey) ==
  IF platform = "custom" THEN customUrl ELSE <<platformUrls(platform), streamKey>>

\* this.rtmpUrls.some(existing => existing.url === finalUrl)
isDuplicateNever(list, url) == FALSE
isDuplicate(list, url) == \E i \in DOMAIN list : list[i].url = url

\* this.rtmpUrls.some(existing => existing.key === streamKey &&
\* existing.basePlatform === platform)
duplicateKey(list, platform, streamKey) ==
  \E i \in DOMAIN list : list[i].key = streamKey /\ list[i].basePlatform = platform

\* The number of a display name 'Name (n)'.
generateNumberedPlatformName(list, platformType) ==
  Cardinality({i \in DOMAIN list : list[i].basePlatform = platformType}) + 1

\* Every destination is numbered by its position among those of its platform.
renumberRTMPDestinations(list) ==
  [i \in DOMAIN list |->
     [list[i] EXCEPT !.number =
        Cardinality({j \in 1..i : list[j].basePlatform = list[i].basePlatform})]]

\* Array.prototype.splice(index, 1): a negative index counts from the end, an
\* index beyond the end removes nothing.
splice(list, index) ==
  LET start == IF index < 0 THEN (IF Len(list) + index < 0 THEN 0 ELSE Len(list) + index)
               ELSE index
  IN IF start >= Len(list) THEN list
     ELSE SubSeq(list, 1, start) \o SubSeq(list, start + 2, Len(list))

\* -------------------------------------------------------------------- Init
Init ==
  /\ currentProc = NoProc
  /\ exitHandlers = <<>>
  /\ pc = [c \in Calls |-> "unused"]
  /\ probe = [c \in Calls |-> "none"]
  /\ result = [c \in Calls |-> NoError]
  /\ req = [c \in Calls |-> NoRequest]
  /\ procState = [c \in Calls |-> "none"]
  /\ killed = [c \in Calls |-> FALSE]
  /\ signals = [c \in Calls |-> {}]
  /\ exitCode = [c \in Calls |-> NullCode]
  /\ timers = <<>>
  /\ sent = [c \in Sessions |-> IF c = NoProc THEN <<Status("idle", NoProc)>> ELSE <<>>]
  /\ recent = <<"idle">>
  /\ stops = 0
  /\ quiet = {}
  /\ exitedEarly = {}
  /\ argv = [c \in Calls |-> <<>>]
  /\ lastData = NoData
  /\ lastClassified = [proc |-> NoProc, text |-> <<>>, message |-> NoError]
  /\ listing = NotListing
  /\ errorOutputs = [c \in Calls |-> <<>>]
  /\ greeting = "none"
  /\ ui = InitialUi
  /\ rtmpUrls = <<>>

\* ----------------------------------------------------------------- actions
\* A 'start' message: status 'starting', then startStream up to its await.
WsStart(c, o) ==
  /\ pc[c] = "unused"
  /\ \A d \in Calls : d < c => pc[d] # "unused"
  /\ LET thrown == startStreamThrows(o) IN
     IF thrown # NoError
       THEN /\ pc' = [pc EXCEPT ![c] = "rejected"]
            /\ result' = [result EXCEPT ![c] = thrown]
            /\ Send(<<Status("starting", c)>> \o StartFailed(thrown, c), c)
            /\ UNCHANGED <<probe, quiet>>
       ELSE /\ pc' = [pc EXCEPT ![c] = "probing"]
            /\ probe' = [probe EXCEPT ![c] = "pending"]
            /\ Send(<<Status("starting", c)>>, c)
            /\ quiet' = quiet \cup {c}
            /\ UNCHANGED result
  /\ req' = [req EXCEPT ![c] = o]
  /\ UNCHANGED <<currentProc, exitHandlers, procState, killed, signals, exitCode,
                 timers, stops, exitedEarly, argv, lastData, lastClassified, listing, errorOutputs, greeting, ui, rtmpUrls>>

\* The version probe failed: the promise is rejected.
ProbeFailed(c) ==
  /\ pc' = [pc EXCEPT ![c] = "rejected"]
  /\ result' = [result EXCEPT ![c] = MissingBinaryMsg]
  /\ Send(StartFailed(MissingBinaryMsg, c), c)
  /\ UNCHANGED <<currentProc, procState, timers>>

\* spawn returned a running process: it takes the slot, the liveness timer is armed.
Spawned(c) ==
  /\ procState' = [procState EXCEPT ![c] = "running"]
  /\ currentProc' = c
  /\ timers' = Append(timers, Timer("liveness", c))
  /\ pc' = [pc EXCEPT ![c] = "window"]
  /\ UNCHANGED <<result, sent, recent>>

\* spawn returned a handle whose 'error' event follows on the next tick.
SpawnErrored(c) ==
  /\ procState' = [procState EXCEPT ![c] = "failed"]
  /\ currentProc' = NoProc
  /\ timers' = Append(timers, Timer("liveness", c))
  /\ pc' = [pc EXCEPT ![c] = "rejected"]
  /\ result' = [result EXCEPT ![c] = SpawnErrorMsg]
  /\ Send(StartFailed(SpawnErrorMsg, c), c)

\* spawn threw: the catch block clears the slot and rejects.
SpawnThrew(c) ==
  /\ currentProc' = NoProc
  /\ pc' = [pc EXCEPT ![c] = "rejected"]
  /\ result' = [result EXCEPT ![c] = SpawnThrowMsg]
  /\ Send(StartFailed(SpawnThrowMsg, c), c)
  /\ UNCHANGED <<procState, timers>>

\* The version probe of call c completes and the executor runs on.
CheckFFmpegDone(c, ok, outcome) ==
  /\ pc[c] = "probing"
  /\ probe' = [probe EXCEPT ![c] = IF ok THEN "ok" ELSE "failed"]
  /\ IF ~ffmpegAvailable(ok)
       THEN outcome = "running" /\ ProbeFailed(c) /\ UNCHANGED argv
       ELSE /\ argv' = [argv EXCEPT ![c] = buildArgs(req[c])]
            /\ CASE outcome = "running" -> Spawned(c)
                 [] outcome = "error" -> SpawnErrored(c)
                 [] outcome = "throw" -> SpawnThrew(c)
  /\ UNCHANGED <<exitHandlers, req, killed, signals, exitCode, stops,
                 quiet, exitedEarly, lastData, lastClassified, listing, errorOutputs, greeting, ui, rtmpUrls>>

\* The liveness timer of call c fires.
LivenessTimer(c) ==
  /\ timers # <<>>
  /\ Head(timers) = Timer("liveness", c)
  /\ timers' = Tail(timers)
  /\ IF pc[c] # "window"
       THEN UNCHANGED <<pc, result, exitHandlers, sent, recent>>
       ELSE IF currentProc # NoProc /\ ~killed[currentProc]
         THEN /\ pc' = [pc EXCEPT ![c] = "resolved"]
              /\ result' = [result EXCEPT ![c] = Resolved]
              /\ exitHandlers' = Append(exitHandlers, c)
              /\ Send(<<Status("streaming", c)>>, c)
         ELSE /\ pc' = [pc EXCEPT ![c] = "rejected"]
              /\ result' = [result EXCEPT ![c] = StartupFailedMsg]
              /\ Send(StartFailed(StartupFailedMsg, c), c)
              /\ UNCHANGED exitHandlers
  /\ UNCHANGED <<currentProc, probe, req, procState, killed, signals, exitCode,
                 stops, quiet, exitedEarly, argv, lastData, lastClassified, listing, errorOutputs, greeting, ui, rtmpUrls>>

\* The 'exit' event of process p.
ProcExit(p, code, errorOutput) ==
  /\ procState[p] = "running"
  /\ procState' = [procState EXCEPT ![p] = "exited"]
  /\ exitCode' = [exitCode EXCEPT ![p] = code]
  /\ currentProc' = SlotAfterExit(code)
  /\ Send(Dispatch(exitHandlers, code, ExitMessage(code, errorOutput), p), p)
  /\ quiet' = {}
  /\ exitedEarly' = IF pc[p] = "window" THEN exitedEarly \cup {p} ELSE exitedEarly
  /\ lastClassified' =
       IF code # 0 /\ code # NullCode
         THEN [proc |-> p, text |-> errorOutput, message |-> classify(errorOutput)]
         ELSE lastClassified
  /\ UNCHANGED <<exitHandlers, pc, probe, result, req, killed, signals, timers, stops,
                 argv, lastData, listing, errorOutputs, greeting, ui, rtmpUrls>>

\* A 'stop' message: stopStream, then status 'stopping'.
WsStop ==
  /\ stops < MaxStops
  /\ stops' = stops + 1
  /\ quiet' = {}
  /\ Send(<<Status("stopping", currentProc)>>, currentProc)
  /\ IF currentProc = NoProc
       THEN UNCHANGED <<currentProc, killed, signals, timers>>
       ELSE /\ currentProc' = SlotAfterStop
            /\ killed' = [killed EXCEPT ![currentProc] = @ \/ KillDelivers(currentProc)]
            /\ signals' = [signals EXCEPT ![currentProc] =
                             IF KillDelivers(currentProc) THEN @ \cup {"SIGTERM"} ELSE @]
            /\ timers' = Append(timers, Timer("grace", currentProc))
  /\ UNCHANGED <<exitHandlers, pc, probe, result, req, procState, exitCode,
                 exitedEarly, argv, lastData, lastClassified, listing, errorOutputs, greeting, ui, rtmpUrls>>

\* The grace-period timer armed by stopStream for process p fires.
GraceTimer(p) ==
  /\ timers # <<>>
  /\ Head(timers) = Timer("grace", p)
  /\ timers' = Tail(timers)
  /\ IF ~killed[p] /\ KillDelivers(p)
       THEN /\ killed' = [killed EXCEPT ![p] = TRUE]
            /\ signals' = [signals EXCEPT ![p] = @ \cup {"SIGKILL"}]
       ELSE UNCHANGED <<killed, signals>>
  /\ UNCHANGED <<currentProc, exitHandlers, pc, probe, result, req, procState,
                 exitCode, sent, recent, stops, quiet, exitedEarly, argv, lastData,
                 lastClassified, listing, errorOutputs, greeting, ui, rtmpUrls>>

\* A 'data' event of the stderr of process p, hooked by hookLogs.
StderrData(p, chunk) ==
  /\ pc[p] = "resolved"
  /\ procState[p] \in {"running", "exited"}
  /\ lastData' = [stream |-> "stderr", chunk |-> chunk,
                  display |-> forEachLine(Split(chunk, LF), displayFor),
                  stats |-> forEachLine(Split(chunk, LF), statsFor)]
  /\ UNCHANGED <<currentProc, exitHandlers, pc, probe, result, req, procState, killed,
                 signals, exitCode, timers, sent, recent, stops, quiet, exitedEarly,
                 argv, lastClassified, listing, errorOutputs, greeting, ui, rtmpUrls>>

\* A 'data' event of the stdout of process p: every non-blank line is shown.
StdoutData(p, chunk) ==
  /\ pc[p] = "resolved"
  /\ procState[p] \in {"running", "exited"}
  /\ lastData' = [stream |-> "stdout", chunk |-> chunk,
                  display |-> forEachLine(Split(chunk, LF), displayForAll),
                  stats |-> <<>>]
  /\ UNCHANGED <<currentProc, exitHandlers, pc, probe, result, req, procState, killed,
                 signals, exitCode, timers, sent, recent, stops, quiet, exitedEarly,
                 argv, lastClassified, listing, errorOutputs, greeting, ui, rtmpUrls>>

\* A 'data' event of the stderr of process p reaches the listener startStream
\* registered at the spawn; the stream stays open after the 'exit' event.
StderrListener(p, data) ==
  /\ procState[p] \in {"running", "exited"}
  /\ Len(errorOutputs[Accumulator(p)]) < MaxChunks
  /\ errorOutputs' = [errorOutputs EXCEPT ![Accumulator(p)] = Append(@, data)]
  /\ UNCHANGED <<currentProc, exitHandlers, pc, probe, result, req, procState, killed,
                 signals, exitCode, timers, sent, recent, stops, quiet, exitedEarly,
                 argv, lastData, lastClassified, listing, greeting, ui, rtmpUrls>>

\* A further observer connects: the 'connection' handler sends it the status.
WsConnect ==
  /\ greeting = "none"
  /\ greeting' = IF isStreaming THEN "streaming" ELSE "idle"
  /\ UNCHANGED <<currentProc, exitHandlers, pc, probe, result, req, procState, killed,
                 signals, exitCode, timers, sent, recent, stops, quiet, exitedEarly,
                 argv, lastData, lastClassified, listing, errorOutputs, ui, rtmpUrls>>

\* The variables of the server, which the frontend never touches.
serverVars ==
  <<currentProc, exitHandlers, pc, probe, result, req, procState, killed, signals,
    exitCode, timers, sent, recent, stops, quiet, exitedEarly, argv, lastData,
    lastClassified, listing, errorOutputs, greeting>>

\* A 'status' message arrives: handleWebSocketMessage calls updateStatus.
OnStatus(status) ==
  /\ ui' = [updateStatus(ui, status) EXCEPT !.last = status]
  /\ UNCHANGED <<serverVars, rtmpUrls>>

\* An 'error' message arrives: handleWebSocketMessage calls showError.
OnError(message) ==
  /\ ui.errorTimers < MaxErrors
  /\ ui' = showError(ui, message)
  /\ UNCHANGED <<serverVars, rtmpUrls>>

\* saveRTMP with the values of the form, trimmed.
SaveRTMP(platform, customUrl, streamKey) ==
  LET url == finalUrl(platform, customUrl, streamKey)
      rejection ==
        IF platform = "custom" /\ customUrl = <<>> THEN EnterUrlMsg
        ELSE IF platform # "custom" /\ streamKey = "" THEN EnterKeyMsg
        ELSE IF isDuplicate(rtmpUrls, url) THEN DuplicateUrlMsg
        ELSE IF platform # "custom" /\ duplicateKey(rtmpUrls, platform, streamKey)
          THEN DuplicateKeyMsg
        ELSE NoError
  IN /\ IF rejection # NoError
          THEN /\ ui.errorTimers < MaxErrors
               /\ ui' = showError(ui, rejection)
               /\ UNCHANGED rtmpUrls
          ELSE /\ Len(rtmpUrls) < MaxSaved
               /\ rtmpUrls' = Append(rtmpUrls,
                                 [name |-> platformNames(platform),
                                  number |-> generateNumberedPlatformName(rtmpUrls, platform),
                                  basePlatform |-> platform,
                                  url |-> url,
                                  key |-> IF platform # "custom" THEN streamKey ELSE NoKey])
               /\ UNCHANGED ui
     /\ UNCHANGED serverVars

\* removeRTMP(index)
RemoveRTMP(index) ==
  /\ rtmpUrls' = renumberRTMPDestinations(splice(rtmpUrls, index))
  /\ UNCHANGED <<serverVars, ui>>

\* A timer of showError fires.
ErrorTimer ==
  /\ ui.errorTimers > 0
  /\ ui' = [(IF ~ui.isStreaming THEN updateStatus(ui, "idle") ELSE ui)
              EXCEPT !.errorTimers = @ - 1]
  /\ UNCHANGED <<serverVars, rtmpUrls>>

\* resolve(value) on the promise of the listDevices call.
Resolve(value) == [listing EXCEPT !.promise = "resolved", !.value = value]

\* The variables of the streaming session, which the device listing never touches.
streamVars ==
  <<currentProc, exitHandlers, pc, probe, result, req, procState, killed, signals,
    exitCode, timers, sent, recent, stops, quiet, exitedEarly, argv, lastData,
    lastClassified, errorOutputs, greeting, ui, rtmpUrls>>

\* listDevices(): the promise is created and the version probe started.
ListDevices ==
  /\ listing.pc = "none"
  /\ listing' = [listing EXCEPT !.pc = "version", !.promise = "pending"]
  /\ UNCHANGED streamVars

\* The callback of the version probe: the mock lists on an error, the listing
\* command otherwise.
VersionDone(versionErr) ==
  /\ listing.pc = "version"
  /\ listing' = IF versionErr # NoError
                  THEN [Resolve(MockDevices) EXCEPT !.pc = "done"]
                  ELSE [listing EXCEPT !.pc = "list"]
  /\ UNCHANGED streamVars

\* The callback of the listing command; err is not looked at.
ListingDone(err, out, errout) ==
  /\ listing.pc = "list"
  /\ LET txt == out \o errout
     IN listing' = [Resolve(devicesOrFallback(parseDevices(txt)))
                      EXCEPT !.pc = "done", !.txt = txt]
  /\ UNCHANGED streamVars

\* Every callback but the 'start' message handler.
Callbacks ==
  \/ \E c \in Calls, ok \in BOOLEAN, outcome \in {"running", "error", "throw"} :
       CheckFFmpegDone(c, ok, outcome)
  \/ \E c \in Calls : LivenessTimer(c)
  \/ \E p \in Calls, code \in ExitCodes, text \in ExitTexts : ProcExit(p, code, text)
  \/ WsStop
  \/ \E p \in Calls : GraceTimer(p)

Next ==
  \/ \E c \in Calls, o \in Requests : WsStart(c, o)
  \/ Callbacks

Spec == Init /\ [][Next]_vars

\* The same program, its 'start' messages drawn from every shape of request.
NextRequests ==
  \/ \E c \in Calls, o \in AllRequests : WsStart(c, o)
  \/ Callbacks

SpecRequests == Init /\ [][NextRequests]_vars

\* ------------------------------------------------------------------ claims
Running == {p \in Calls : procState[p] = "running"}

\* Call c begins in this step.
Begins(c) == pc[c] = "unused" /\ pc'[c] # "unused"

\* A 'stop' message is handled in this step.
Stops == stops' = stops + 1

\* Process p exits in this step.
Exits(p) == procState[p] = "running" /\ procState'[p] = "exited"

\* The statuses sent about session c, in order.
SessionStatuses(c) == Statuses(sent[c])

\* 'stopped' is shown as 'idle' by the observer (frontend updateStatus).
StateOf(s) == IF s = "stopped" THEN "idle" ELSE s

LegalEdges ==
  { <<"idle", "starting">>, <<"starting", "streaming">>, <<"streaming", "stopping">>,
    <<"stopping", "idle">>, <<"starting", "idle">>, <<"streaming", "idle">> }

\* C1: at most one spawned encoder process that has not yet exited exists, in
\* every reachable state.
C1_SingleFlight == Cardinality(Running) <= 1

\* C2: a start call with a well-formed request that arrives while an earlier
\* call is in flight or has resolved, with no stop call and no process exit
\* since that earlier call began, fails with 'Stream already running', spawns
\* nothing and leaves the slot and the processes as they were.
C2_SecondStartRejected ==
  [][\A c \in Calls :
       (/\ Begins(c)
        /\ ~Malformed(req'[c])
        /\ \E a \in quiet : pc[a] \in {"probing", "window", "resolved"})
         => /\ result'[c] = AlreadyRunningMsg
            /\ currentProc' = currentProc
            /\ procState' = procState]_vars

\* C3: a start call made while isStreaming() is true fails at once with
\* 'Stream already running': no version probe is issued, nothing is spawned and
\* the slot, the processes, the timers and the exit-handler list are unchanged.
C3_StartWhileStreamingNoEffect ==
  [][\A c \in Calls :
       (Begins(c) /\ currentProc # NoProc)
         => /\ result'[c] = AlreadyRunningMsg
            /\ pc'[c] = "rejected"
            /\ probe'[c] = "none"
            /\ currentProc' = currentProc
            /\ procState' = procState
            /\ killed' = killed
            /\ signals' = signals
            /\ timers' = timers
            /\ exitHandlers' = exitHandlers]_vars

\* A start call was rejected as already running while the slot holds a process.
C3_Witness ==
  \E c \in Calls : result[c] = AlreadyRunningMsg /\ currentProc # NoProc

\* C4: a start request with an empty video device name, an empty audio device
\* name or an empty or absent destination list fails with the InvalidRequest
\* message, with no version probe, no spawn and the slot unchanged.
C4_InvalidRequestRejected ==
  [][\A c \in Calls :
       (Begins(c) /\ Malformed(req'[c]))
         => /\ result'[c] = InvalidRequestMsg
            /\ probe'[c] = "none"
            /\ currentProc' = currentProc
            /\ procState' = procState]_vars

\* C5: a process is spawned only by a call whose version probe succeeded; a
\* call whose probe failed is rejected with 'FFmpeg not found', has spawned
\* nothing, and the probe's failure leaves the slot and the processes as they
\* were (an empty slot stays empty).
C5_ProbeBeforeSpawn ==
  [][\A c \in Calls :
       /\ procState'[c] # "none" => probe'[c] = "ok"
       /\ probe'[c] = "failed" => result'[c] = MissingBinaryMsg /\ procState'[c] = "none"
       /\ (probe[c] = "pending" /\ probe'[c] = "failed")
            => currentProc' = currentProc /\ procState' = procState]_vars

\* A call was rejected because its probe failed, and the slot is empty.
C5_Witness ==
  \E c \in Calls :
    probe[c] = "failed" /\ result[c] = MissingBinaryMsg /\ currentProc = NoProc

\* C6: when the process of a session that has been observed as Starting,
\* Streaming, Stopping (it survived its liveness window and was then stopped)
\* exits, the statuses observed for the session become exactly Starting,
\* Streaming, Stopping, Idle: one idle status, none repeated.
C6_SuccessfulSessionSequence ==
  [][\A p \in Calls :
       (Exits(p) /\ p \notin exitedEarly'
          /\ SessionStatuses(p) = <<"starting", "streaming", "stopping">>)
         => SessionStatuses(p)' = <<"starting", "streaming", "stopping", "stopped">>]_vars

\* C7: a start attempt whose process exited before its liveness timer fired is
\* rejected with the StartupFailed message and 'streaming' is never sent for it.
C7_EarlyExitFailsStart ==
  \A c \in exitedEarly :
    pc[c] # "window"
      => result[c] = StartupFailedMsg /\ ~Includes(SessionStatuses(c), "streaming")

\* C8: every two consecutive statuses sent to the observer form an edge of the
\* state machine.
C8_OnlyStateMachineEdges ==
  \A i \in 1..(Len(recent) - 1) :
    <<StateOf(recent[i]), StateOf(recent[i + 1])>> \in LegalEdges

\* C9: a stop request made while the observer is shown Idle and no process is
\* owned sends no message, delivers no signal, arms no timer and leaves the
\* slot as it was.
C9_StopWhileIdleNoOp ==
  [][(Stops /\ currentProc = NoProc /\ StateOf(Last(recent)) = "idle")
       => /\ sent' = sent
          /\ recent' = recent
          /\ signals' = signals
          /\ timers' = timers
          /\ currentProc' = currentProc]_vars

\* C10: right after a stop request is handled isStreaming() is false, whether
\* or not the stopped process has exited, and no start request would then be
\* rejected with 'Stream already running'.
C10_StopReleasesSlot ==
  [][Stops => /\ ~isStreaming'
              /\ \A o \in Requests : startStreamThrows(o)' # AlreadyRunningMsg]_vars

\* A stopped process still runs, the slot is empty and a start call made after
\* the stop was accepted.
C10_Witness ==
  \E p \in Calls, c \in quiet :
    /\ procState[p] = "running"
    /\ "SIGTERM" \in signals[p]
    /\ currentProc = NoProc
    /\ pc[c] = "probing"

\* The grace-period timer of process p fires in this step.
GraceFires(p) ==
  timers # <<>> /\ Head(timers) = Timer("grace", p) /\ timers' = Tail(timers)

\* C11: when the grace-period timer of a process that was sent SIGTERM fires
\* and the process has still not exited, SIGKILL is sent to that process.
C11_GraceEscalates ==
  [][\A p \in Calls :
       (GraceFires(p) /\ "SIGTERM" \in signals[p] /\ procState[p] = "running")
         => "SIGKILL" \in signals'[p]]_vars

\* What Node's event loop and the operating system guarantee: a pending probe
\* completes, an armed timer fires, a process that was sent a signal exits.
\* Messages of the client and the exit of an unsignalled encoder are not owed.
Fairness ==
  /\ WF_vars(\E c \in Calls, ok \in BOOLEAN, outcome \in {"running", "error", "throw"} :
               CheckFFmpegDone(c, ok, outcome))
  /\ WF_vars(\E c \in Calls : LivenessTimer(c))
  /\ WF_vars(\E p \in Calls : GraceTimer(p))
  /\ WF_vars(\E p \in Calls, code \in ExitCodes, text \in ExitTexts :
               signals[p] # {} /\ ProcExit(p, code, text))

SpecFair == Spec /\ Fairness

\* The last status sent is 'stopping' while a start call is at its probe or in
\* its liveness window: the stop was handled during that start attempt.
StoppedInFlight ==
  Last(recent) = "stopping" /\ \E c \in Calls : pc[c] \in {"probing", "window"}

\* No encoder process runs, the slot is empty and the observer is shown Idle.
Idle ==
  Running = {} /\ ~isStreaming /\ StateOf(Last(recent)) = "idle"

\* C12: a stop request handled while a start attempt is in flight (at its
\* version probe or in its liveness window) is eventually followed by Idle: no
\* encoder process runs, isStreaming() is false and the last status is idle.
C12_StopDuringStartConverges == [](StoppedInFlight => <>Idle)

\* C13: whenever the last status sent on the connection is 'stopping', an idle
\* status ('idle' or 'stopped') is eventually sent after it.
C13_StoppingThenIdle ==
  [](Last(recent) = "stopping" => <>(StateOf(Last(recent)) = "idle"))

\* The exit handlers that ran for process p, in the order they ran: each
\* invocation sends one 'stopped' status.
RECURSIVE InvokedBy(_)
InvokedBy(msgs) ==
  IF msgs = <<>> THEN <<>>
  ELSE (IF Head(msgs).by # NoProc /\ Head(msgs).payload = "stopped"
          THEN <<Head(msgs).by>> ELSE <<>>) \o InvokedBy(Tail(msgs))

\* C14: the step in which process p exits invokes for p every handler
\* registered before it, once each and in registration order, and no other
\* step invokes a handler for p.
C14_HandlersOncePerExitInOrder ==
  [][\A p \in Calls :
       /\ Exits(p) => InvokedBy(sent'[p]) = exitHandlers /\ InvokedBy(sent[p]) = <<>>
       /\ ~Exits(p) => InvokedBy(sent'[p]) = InvokedBy(sent[p])]_vars

\* A process has exited with two handlers registered, and both ran for it.
C14_Witness ==
  \E p \in Calls :
    procState[p] = "exited" /\ Len(exitHandlers) = 2 /\ InvokedBy(sent[p]) = exitHandlers

\* The exit handlers that sent an error event about process p, in order.
RECURSIVE HandlerErrors(_)
HandlerErrors(msgs) ==
  IF msgs = <<>> THEN <<>>
  ELSE (IF Head(msgs).by # NoProc /\ Head(msgs).type = "error"
          THEN <<Head(msgs).by>> ELSE <<>>) \o HandlerErrors(Tail(msgs))

\* The messages the classifier can return.
Classified == {classify(t) : t \in ExitTexts}

\* C15: at the exit of process p every registered handler is given a
\* classified error message, which it forwards as an error event, if the exit
\* code is a number other than 0; for exit code 0 and for a signal-only exit
\* (code null) no handler is given one.
C15_ErrorMessageIffNonZeroCode ==
  [][\A p \in Calls :
       Exits(p) =>
         /\ HandlerErrors(sent'[p]) =
              (IF exitCode'[p] # 0 /\ exitCode'[p] # NullCode THEN exitHandlers ELSE <<>>)
         /\ \A i \in 1..Len(sent'[p]) :
              (sent'[p][i].by # NoProc /\ sent'[p][i].type = "error")
                => sent'[p][i].payload \in Classified]_vars

\* One process exited with a non-zero code and a handler sent its error;
\* another exited on a signal alone and its handlers sent none.
C15_Witness ==
  \E p, q \in Calls :
    /\ procState[p] = "exited" /\ exitCode[p] = 1 /\ HandlerErrors(sent[p]) # <<>>
    /\ procState[q] = "exited" /\ exitCode[q] = NullCode /\ p # q
    /\ InvokedBy(sent[q]) # <<>> /\ HandlerErrors(sent[q]) = <<>>

RECURSIVE Errors(_)
Errors(msgs) ==
  IF msgs = <<>> THEN <<>>
  ELSE (IF Head(msgs).type = "error" THEN <<Head(msgs).payload>> ELSE <<>>)
         \o Errors(Tail(msgs))

\* The session of process p ended in a process-level failure that has been
\* reported: p exited inside its liveness window and the start was rejected for
\* it, or p exited with a non-zero code after its start resolved, unstopped.
ProcessFailed(p) ==
  /\ procState[p] = "exited"
  /\ \/ p \in exitedEarly /\ result[p] = StartupFailedMsg
     \/ /\ p \notin exitedEarly
        /\ pc[p] = "resolved"
        /\ exitCode[p] # 0 /\ exitCode[p] # NullCode
        /\ signals[p] = {}

\* C16: for every process-level failure exactly one error event is sent about
\* the session and the last status sent about it is idle, however many
\* sessions ran before.
C16_OneErrorPerFailure ==
  \A p \in Calls :
    ProcessFailed(p)
      => Len(Errors(sent[p])) = 1 /\ StateOf(Last(SessionStatuses(p))) = "idle"

\* C17: a start request rejected as invalid or as already running sends no
\* status: the statuses seen by the observer are what they were before it.
C17_RejectedStartNoTransition ==
  [][\A c \in Calls :
       (Begins(c) /\ result'[c] \in {InvalidRequestMsg, AlreadyRunningMsg})
         => recent' = recent /\ Statuses(sent'[c]) = <<>>]_vars

\* The spawn of call c fails in this step, by an 'error' event or by a throw.
SpawnFails(c) ==
  pc[c] = "probing" /\ result'[c] \in {SpawnErrorMsg, SpawnThrowMsg}

\* C18: right after the exit of an encoder process, whatever its exit code,
\* and right after a spawn failure, isStreaming() is false and a start call
\* with a valid request would not be rejected.
C18_FailuresRecoverable ==
  [][\A p \in Calls :
       (Exits(p) \/ SpawnFails(p))
         => /\ ~isStreaming'
            /\ \A o \in Requests : ~Malformed(o) => startStreamThrows(o)' = NoError]_vars

\* A process exited with a non-zero code and a start call made after the exit
\* was accepted.
C18_Witness ==
  \E p \in Calls, c \in quiet :
    procState[p] = "exited" /\ exitCode[p] = 1 /\ pc[c] = "probing"

\* ------------------------------------------------- command builder, checked
MaxDests == 3

\* Device names, one with a space; destination URLs, none holding the '|' that
\* separates the slaves of a tee output.
Devices == {"cam", "USB Camera"}
Destinations == {"rtmp://a/live", "rtmps://b/live"}
DestinationLists == UNION {[1..n -> Destinations] : n \in 1..MaxDests}

\* Every valid request over the devices and the destination lists.
ArgRequests == {Request(v, "mic", TRUE, r) : v \in Devices, r \in DestinationLists}

\* The program serving one 'start' message, its request drawn from ArgRequests.
NextArgs ==
  \/ \E o \in ArgRequests : WsStart(1, o)
  \/ \E ok \in BOOLEAN, outcome \in {"running", "error", "throw"} :
       CheckFFmpegDone(1, ok, outcome)
  \/ LivenessTimer(1)
  \/ \E code \in ExitCodes, text \in ExitTexts : ProcExit(1, code, text)
  \/ WsStop
  \/ GraceTimer(1)

SpecArgs == Init /\ [][NextArgs]_vars

\* How ffmpeg reads an argument vector: '-y' stands alone, every other option
\* takes the argument after it, and an argument that is neither is an output.
ValueOptions ==
  {"-f", "-rtbufsize", "-i", "-c:v", "-preset", "-tune", "-pix_fmt", "-b:v",
   "-maxrate", "-bufsize", "-g", "-r", "-c:a", "-b:a", "-map"}

RECURSIVE Outputs(_)
Outputs(a) ==
  IF a = <<>> THEN <<>>
  ELSE IF Head(a) = Str("-y") THEN Outputs(Tail(a))
  ELSE IF \E x \in ValueOptions : Head(a) = Str(x)
    THEN (IF Len(a) = 1 THEN <<>> ELSE Outputs(Tail(Tail(a))))
  ELSE <<Head(a)>> \o Outputs(Tail(a))

\* The values given to option x, in order.
RECURSIVE OptionValues(_, _)
OptionValues(a, x) ==
  IF Len(a) < 2 THEN <<>>
  ELSE IF Head(a) = Str("-y") THEN OptionValues(Tail(a), x)
  ELSE IF \E y \in ValueOptions : Head(a) = Str(y)
    THEN (IF Head(a) = Str(x) THEN <<a[2]>> ELSE <<>>) \o OptionValues(Tail(Tail(a)), x)
  ELSE OptionValues(Tail(a), x)

RECURSIVE BeforeInput(_)
BeforeInput(a) ==
  IF a = <<>> \/ Head(a) = Str("-i") THEN <<>>
  ELSE <<Head(a)>> \o BeforeInput(Tail(a))

\* C20: every argument vector built, in either mode, holds '-y', gives the
\* input the format dshow, and has exactly one input, the single argument
\* made of 'video=', the request's video device name, ':audio=' and the
\* request's audio device name.
C20_CaptureInput ==
  \A c \in Calls :
    argv[c] # <<>> =>
      /\ Str("-y") \in Range(argv[c])
      /\ OptionValues(BeforeInput(argv[c]), "-f") = <<Str("dshow")>>
      /\ OptionValues(argv[c], "-i") =
           << <<"video=", req[c].video, ":audio=", req[c].audio>> >>

\* A vector was built for the device 'USB Camera' and a single destination.
C20_Witness ==
  \E c \in Calls :
    /\ argv[c] # <<>>
    /\ req[c].video = "USB Camera"
    /\ Len(req[c].rtmps) = 1
    /\ Len(OptionValues(argv[c], "-i")) = 1

\* The destinations of the model whose URL has the scheme rtmps.
SecureDestinations == {"rtmps://b/live"}

\* The i-th output group of the vector a built for a request with n
\* destinations carries the publish-permission option: in a single-output
\* vector the argument '-rtmp_conn' with the value 'S:allowPublish', in a tee
\* output an option of the i-th slave that names rtmp_conn.
HasPublishOption(a, n, i) ==
  IF n = 1
    THEN \E k \in 1..(Len(a) - 1) : a[k] = Str("-rtmp_conn") /\ a[k + 1] = Str("S:allowPublish")
    ELSE LET slave == Split(Outputs(a)[1], "|")[i]
         IN \E k \in DOMAIN slave :
              slave[k] \in {"rtmp_conn", "rtmp_conn=S:allowPublish",
                            "[f=flv:onfail=ignore:rtmp_conn=S:allowPublish]"}

\* C21: in every argument vector built, the output group of a destination
\* carries the publish-permission option exactly when the destination's URL
\* has the scheme rtmps.
C21_PublishOptionIffRtmps ==
  \A c \in Calls :
    argv[c] # <<>> =>
      \A i \in DOMAIN req[c].rtmps :
        req[c].rtmps[i] \in SecureDestinations
          <=> HasPublishOption(argv[c], Len(req[c].rtmps), i)

\* C22: every argument vector built, in either mode, holds the reconnect flags
\* '-reconnect' and '-reconnect_streamed' and a maximum reconnect delay
\* '-reconnect_delay_max' with its value.
C22_ReconnectFlags ==
  \A c \in Calls :
    argv[c] # <<>> =>
      /\ \E k \in 1..(Len(argv[c]) - 1) : argv[c][k] = Str("-reconnect")
      /\ \E k \in 1..(Len(argv[c]) - 1) : argv[c][k] = Str("-reconnect_streamed")
      /\ \E k \in 1..(Len(argv[c]) - 1) : argv[c][k] = Str("-reconnect_delay_max")

\* ---------------------------------------------------- output parser, checked
\* One 'start' message served up to the hookLogs call that follows its await.
StartToHook ==
  \/ \E o \in Requests : WsStart(1, o)
  \/ \E ok \in BOOLEAN, outcome \in {"running", "error", "throw"} :
       CheckFFmpegDone(1, ok, outcome)
  \/ LivenessTimer(1)

\* Progress lines: each of the six tokens absent, present with a value its
\* expression accepts, or present with one it does not ('N/A'; a size in KiB).
StatKeys == <<"frame", "fps", "size", "time", "bitrate", "speed">>
TokenOf(key, shape) ==
  IF shape = "bad"
    THEN (IF key = "size" THEN NumTok("size", 1024, NoFrac, "KiB") ELSE NaTok(key))
    ELSE CASE key = "frame" -> NumTok("frame", 1234, NoFrac, "")
           [] key = "fps" -> NumTok("fps", 30, NoFrac, "")
           [] key = "size" -> NumTok("size", 1024, NoFrac, "kB")
           [] key = "time" -> ClockTok("time", 1, 2, 41, 23)
           [] key = "bitrate" -> NumTok("bitrate", 203, 4, "kbits/s")
           [] key = "speed" -> NumTok("speed", 1, 0, "x")

StatLine(shapes) ==
  concat([i \in DOMAIN StatKeys |->
            IF shapes[StatKeys[i]] = "absent" THEN <<>>
            ELSE <<TokenOf(StatKeys[i], shapes[StatKeys[i]]), Blank>>])

\* frame=1234 fps=30 q=28.0 size=1024kB time=00:00:41.23 bitrate=203.4kbits/s speed=1.0x
ExampleLine ==
  <<NumTok("frame", 1234, NoFrac, ""), Blank, NumTok("fps", 30, NoFrac, ""), Blank,
    NumTok("q", 28, 0, ""), Blank, NumTok("size", 1024, NoFrac, "kB"), Blank,
    ClockTok("time", 0, 0, 41, 23), Blank, NumTok("bitrate", 203, 4, "kbits/s"), Blank,
    NumTok("speed", 1, 0, "x")>>

StatLines ==
  {StatLine(shapes) : shapes \in [Range(StatKeys) -> {"absent", "good", "bad"}]}
    \cup {ExampleLine}

NextStats ==
  \/ StartToHook
  \/ \E l \in StatLines : StderrData(1, l)

SpecStats == Init /\ [][NextStats]_vars

\* The line of the last chunk that the i-th emitted sample was made for.
LineOf(entry) == trim(Split(lastData.chunk, LF)[entry.of])

\* The expression of field key accepts a token of the line.
Parses(line, key) ==
  \E i \in DOMAIN line :
    CASE key = "frame" -> frameRe(line[i])
      [] key = "fps" -> fpsRe(line[i])
      [] key = "bitrate" -> bitrateRe(line[i])
      [] key = "time" -> timeRe(line[i])
      [] key = "size" -> sizeRe(line[i])
      [] key = "speed" -> speedRe(line[i])

\* C23: a sample is emitted for a line only if an fps, a bitrate or a time
\* token of the line parsed; a line of which only frame, size or speed tokens
\* parse yields no sample.
C23_SampleNeedsFpsBitrateOrTime ==
  \A k \in DOMAIN lastData.stats :
    LET line == LineOf(lastData.stats[k])
    IN Parses(line, "fps") \/ Parses(line, "bitrate") \/ Parses(line, "time")

\* A line with the frame, size and speed tokens parsed and the fps and bitrate
\* tokens present but not parsable was handled, and no sample was emitted.
C23_Witness ==
  /\ lastData.stream = "stderr"
  /\ LET line == trim(lastData.chunk)
     IN /\ Parses(line, "frame") /\ Parses(line, "size") /\ Parses(line, "speed")
        /\ HasToken(line, "fps") /\ HasToken(line, "bitrate")
        /\ ~Parses(line, "fps") /\ ~Parses(line, "bitrate") /\ ~Parses(line, "time")
  /\ lastData.stats = <<>>

\* The field of a sample that holds the value of token key.
FieldOf(key) == IF key = "time" THEN "duration" ELSE key

\* C24: for every stderr line of which an fps, a bitrate or a time token
\* parses, whatever other tokens it holds, one sample is emitted, and its
\* fields are exactly those of the tokens of the line that parse.
C24_AnyCombination ==
  (lastData.stream = "stderr" /\ trim(lastData.chunk) # <<>>)
    => LET line == trim(lastData.chunk)
       IN (Parses(line, "fps") \/ Parses(line, "bitrate") \/ Parses(line, "time"))
            => /\ Len(lastData.stats) = 1
               /\ DOMAIN lastData.stats[1].value =
                    {FieldOf(key) : key \in {k \in Range(StatKeys) : Parses(line, k)}}

\* The first token of the line with the given key.
TokenAt(line, key) == line[CHOOSE i \in DOMAIN line : line[i].key = key /\ \A j \in 1..(i - 1) : line[j].key # key]

\* C25: a stderr line whose six tokens all parse yields one sample with the
\* six fields frame, fps, bitrate, size, speed and duration holding the tokens'
\* numbers, the duration being HH*3600 + MM*60 + SS of the time token with its
\* hundredths dropped; the example line gives frame 1234, fps 30, bitrate
\* 203.4, size 1024, speed 1.0 and duration 41.
C25_FullLineSample ==
  (lastData.stream = "stderr" /\ \A key \in Range(StatKeys) : Parses(trim(lastData.chunk), key))
    => LET line == trim(lastData.chunk)
           time == TokenAt(line, "time")
       IN /\ Len(lastData.stats) = 1
          /\ lastData.stats[1].value =
               [frame |-> Number(TokenAt(line, "frame").whole, 0),
                fps |-> Number(TokenAt(line, "fps").whole, 0),
                bitrate |-> Number(TokenAt(line, "bitrate").whole,
                                   TokenAt(line, "bitrate").tenths),
                size |-> Number(TokenAt(line, "size").whole, 0),
                speed |-> Number(TokenAt(line, "speed").whole, TokenAt(line, "speed").tenths),
                duration |-> Number(time.whole * 3600 + time.mm * 60 + time.ss, 0)]
          /\ lastData.chunk = ExampleLine
               => lastData.stats[1].value =
                    [frame |-> Number(1234, 0), fps |-> Number(30, 0),
                     bitrate |-> Number(203, 4), size |-> Number(1024, 0),
                     speed |-> Number(1, 0), duration |-> Number(41, 0)]

\* The example line was handled and its sample emitted.
C25_Witness ==
  /\ lastData.stream = "stderr"
  /\ lastData.chunk = ExampleLine
  /\ Len(lastData.stats) = 1
  /\ lastData.stats[1].value.duration = Number(41, 0)

MaxLines == 2

\* Lines of encoder output: the buffer-overflow diagnostic, the repeat marker
\* ffmpeg prints for a repeated message, an ordinary line, an indented one, a
\* blank one and an empty one.
OverflowLine ==
  <<Text("[dshow @ 0]"), Blank, Text("real-time buffer"), Blank, Text("too full"),
    Blank, Text("frame dropped")>>
RepeatLine == <<Blank, Text("Last message repeated"), Blank, Text("2 times")>>
OrdinaryLine == <<Text("Stream mapping:")>>
IndentedLine == <<Blank, Blank, Text("Stream #0:0 -> #0:0")>>
LogLines ==
  {OverflowLine, RepeatLine, OrdinaryLine, IndentedLine, ExampleLine, <<Blank>>, <<>>}

\* Chunks of up to MaxLines lines, separated by line feeds.
LogChunks == {join(ls, LF) : ls \in UNION {[1..n -> LogLines] : n \in 1..MaxLines}}

NextLogs ==
  \/ StartToHook
  \/ \E chunk \in LogChunks : StderrData(1, chunk)
  \/ \E chunk \in LogChunks : StdoutData(1, chunk)

SpecLogs == Init /\ [][NextLogs]_vars

\* The lines of the last chunk, and the display lines emitted for the i-th.
ChunkLines == Split(lastData.chunk, LF)
DisplayOf(i) ==
  LET I == {k \in DOMAIN lastData.display : lastData.display[k].of = i}
  IN [k \in 1..Cardinality(I) |->
        lastData.display[CHOOSE j \in I : Cardinality({m \in I : m <= j}) = k].value]

IsOverflow(line) == Contains(line, "real-time buffer") /\ Contains(line, "too full")

\* C26: of the buffer-overflow diagnostic lines of a stderr chunk, one that
\* begins a run of consecutive ones is shown as the one reworded warning and
\* one that follows another is not shown at all.
C26_OneWarningPerRun ==
  lastData.stream = "stderr" =>
    \A i \in DOMAIN ChunkLines :
      IsOverflow(ChunkLines[i]) =>
        DisplayOf(i) = (IF i > 1 /\ IsOverflow(ChunkLines[i - 1])
                          THEN <<>> ELSE << <<Text(BufferWarning)>> >>)

IsRepeat(line) == Contains(line, "Last message repeated")

\* Line i of the last chunk is the buffer-overflow diagnostic, or a repeat
\* marker with nothing but repeat markers and blank lines between it and the
\* diagnostic or the beginning of the chunk (its message came earlier).
RepeatOrBlank(line) == IsRepeat(line) \/ trim(line) = <<>>
InOverflowRun(i) ==
  \/ IsOverflow(ChunkLines[i])
  \/ \A m \in 1..i : RepeatOrBlank(ChunkLines[m])
  \/ \E j \in 1..(i - 1) :
       IsOverflow(ChunkLines[j]) /\ \A m \in (j + 1)..i : RepeatOrBlank(ChunkLines[m])

\* C27: every line of a chunk that is not blank and belongs to no run of the
\* buffer-overflow diagnostic is shown exactly once, as its text without the
\* blanks around it.
C27_OtherLinesVerbatim ==
  \A i \in DOMAIN ChunkLines :
    (trim(ChunkLines[i]) # <<>> /\ ~InOverflowRun(i))
      => DisplayOf(i) = <<trim(ChunkLines[i])>>

\* ------------------------------------------------------- classifier, checked
MaxDiag == 2

\* Diagnostics of an accumulated stderr text: the substrings the classifier
\* looks for and one it does not know.
Diagnostics ==
  {"Error in the pull function", "IO error: End of file", "Error number -10053",
   "Connection refused", "No such file or directory", "Permission denied",
   "already in use", "Could not run graph", "Could not find audio only device",
   "Invalid data found", "real-time buffer", "too full",
   "baseline profile doesn't support", "Error setting profile", "Unknown encoder"}
ClassifyTexts == UNION {[1..n -> Diagnostics] : n \in 0..MaxDiag}

\* One hooked session whose process exits with any accumulated text.
NextClassify ==
  \/ StartToHook
  \/ \E code \in ExitCodes, text \in ClassifyTexts : ProcExit(1, code, text)

SpecClassify == Init /\ [][NextClassify]_vars

\* The category a message of the classifier belongs to.
Category(message) ==
  CASE message \in {"RTMP connection failed - check stream key and network connection",
                    "Network connection lost - one RTMP server may be unreachable"}
         -> "network"
    [] message = "RTMP server connection refused - check URL and network" -> "refused"
    [] message = "Device not found - camera or microphone unavailable" -> "device-not-found"
    [] message = "Audio device not found - try refreshing devices or check microphone connection"
         -> "audio-device-not-found"
    [] message = "Device access denied - check permissions" -> "permission"
    [] message = "Device busy - close other applications using camera/mic (Chrome, Skype, Teams, etc.)"
         -> "device-busy"
    [] message = "Invalid RTMP stream key or URL format" -> "invalid-credentials"
    [] message = "Camera buffer overflow - try reducing video quality or closing other apps"
         -> "buffer-overflow"
    [] message \in {"Camera format incompatible - switching to main profile",
                    "Video encoding profile error - using compatible settings"}
         -> "profile"
    [] OTHER -> "generic"

\* A pattern of the category occurs in the text.
Occurs(text, category) ==
  CASE category = "network" ->
         \/ Includes(text, "Error in the pull function")
         \/ Includes(text, "IO error: End of file")
         \/ Includes(text, "Error number -10053")
    [] category = "refused" -> Includes(text, "Connection refused")
    [] category = "device-not-found" -> Includes(text, "No such file or directory")
    [] category = "audio-device-not-found" -> Includes(text, "Could not find audio only device")
    [] category = "permission" -> Includes(text, "Permission denied")
    [] category = "device-busy" ->
         Includes(text, "already in use") \/ Includes(text, "Could not run graph")
    [] category = "invalid-credentials" -> Includes(text, "Invalid data found")
    [] category = "buffer-overflow" ->
         Includes(text, "real-time buffer") /\ Includes(text, "too full")
    [] category = "profile" ->
         \/ Includes(text, "baseline profile doesn't support")
         \/ Includes(text, "Error setting profile")

\* The first category of the order of which a pattern occurs in the text.
FirstOccurring(text, order) ==
  LET I == {i \in DOMAIN order : Occurs(text, order[i])}
  IN IF I = {} THEN "generic" ELSE order[CHOOSE i \in I : \A j \in I : i <= j]

\* The claimed priority order; 'Audio device not found' is a device-not-found
\* message.
ClaimedOrder ==
  <<"network", "refused", "device-not-found", "permission", "device-busy",
    "invalid-credentials", "buffer-overflow", "profile">>
ClaimedCategory(c) == IF c = "audio-device-not-found" THEN "device-not-found" ELSE c
OccursClaimed(text, category) ==
  Occurs(text, category)
    \/ (category = "device-not-found" /\ Occurs(text, "audio-device-not-found"))

\* C28 as claimed: the classified message belongs to the first category, in the
\* order network, refused, device-not-found, permission, device-busy,
\* invalid-credentials, buffer-overflow, profile, of which a pattern occurs in
\* the text, and is the generic fallback when none occurs.
C28_ClaimedPriority ==
  lastClassified.message # NoError =>
    LET I == {i \in DOMAIN ClaimedOrder : OccursClaimed(lastClassified.text, ClaimedOrder[i])}
    IN ClaimedCategory(Category(lastClassified.message)) =
         (IF I = {} THEN "generic" ELSE ClaimedOrder[CHOOSE i \in I : \A j \in I : i <= j])

\* The order the code gives: the missing-audio-device pattern ranks below
\* device-busy.
CodeOrder ==
  <<"network", "refused", "device-not-found", "permission", "device-busy",
    "audio-device-not-found", "invalid-credentials", "buffer-overflow", "profile">>

\* C28, amended: the classified message belongs to the first category, in the
\* order network, refused, device-not-found (no such file), permission,
\* device-busy, audio-device-not-found, invalid-credentials, buffer-overflow,
\* profile, of which a pattern occurs in the text, and is the generic fallback
\* when none occurs.
C28_CodePriority ==
  lastClassified.message # NoError =>
    Category(lastClassified.message) = FirstOccurring(lastClassified.text, CodeOrder)

\* A text with a device-busy pattern and the missing-audio-device pattern was
\* classified as device busy.
C28_Witness ==
  /\ Includes(lastClassified.text, "Could not run graph")
  /\ Includes(lastClassified.text, "Could not find audio only device")
  /\ Category(lastClassified.message) = "device-busy"

\* C29 as claimed: every classified text that contains "Connection refused" is
\* given the connection-refused category, and every text in which no known
\* pattern occurs is given the generic fallback.
C29_RefusedAlways ==
  lastClassified.message # NoError =>
    /\ (Includes(lastClassified.text, "Connection refused")
          => Category(lastClassified.message) = "refused")
    /\ (FirstOccurring(lastClassified.text, CodeOrder) = "generic"
          => lastClassified.message = GenericFailure)

\* C29, amended: every classified text that contains "Connection refused" and
\* none of the network/connection-loss patterns is given the connection-refused
\* category, and every text in which no known pattern occurs is given the
\* generic fallback.
C29_RefusedUnlessNetwork ==
  lastClassified.message # NoError =>
    /\ (Includes(lastClassified.text, "Connection refused")
          /\ ~Occurs(lastClassified.text, "network")
          => Category(lastClassified.message) = "refused")
    /\ (FirstOccurring(lastClassified.text, CodeOrder) = "generic"
          => lastClassified.message = GenericFailure)

\* A text with "Connection refused" after a lower-priority pattern was
\* classified as refused.
C29_Witness ==
  /\ lastClassified.text = <<"Permission denied", "Connection refused">>
  /\ Category(lastClassified.message) = "refused"

\* A text without any known pattern was classified as the generic failure.
C29_WitnessGeneric ==
  /\ lastClassified.text = <<"Unknown encoder">>
  /\ lastClassified.message = GenericFailure

\* ------------------------------------------------------ device listing, checked
MaxOut == 2

\* Lines the listing command prints: a camera, a second camera, a microphone,
\* a device of type none, an 'Alternative name' line, a quoted name without a
\* type (the older output format), a line of another component, an empty line.
DeviceLines ==
  {DeviceLine("dshow", TRUE, "Integrated Camera", "video"),
   DeviceLine("dshow", TRUE, "USB Camera", "video"),
   DeviceLine("dshow", TRUE, "Microphone", "audio"),
   DeviceLine("dshow", TRUE, "Virtual Source", "none"),
   DeviceLine("dshow", FALSE, "@device_pnp", ""),
   DeviceLine("dshow", TRUE, "Integrated Camera", ""),
   DeviceLine("in#0", FALSE, "", ""),
   EmptyLine}

\* Texts by their lines; the empty text is one empty line.
DeviceTexts == UNION {[1..n -> DeviceLines] : n \in 1..MaxOut}
StdoutTexts == [1..1 -> DeviceLines]

\* Errors of a command: none, a missing binary, a non-zero exit.
ExecErrors == {NoError, "ENOENT", "Command failed"}

NextDevices ==
  \/ ListDevices
  \/ \E versionErr \in ExecErrors : VersionDone(versionErr)
  \/ \E err \in ExecErrors, out \in StdoutTexts, errout \in DeviceTexts :
       ListingDone(err, out, errout)

SpecDevices == Init /\ [][NextDevices]_vars

\* C30: whatever the version probe and the listing command give, listDevices
\* never rejects, and once the last callback has run the promise is resolved
\* with lists that are not both empty.
C30_ListDevicesNeverEmpty ==
  /\ listing.promise # "rejected"
  /\ listing.pc = "done" =>
       /\ listing.promise = "resolved"
       /\ ~(listing.value.video = <<>> /\ listing.value.audio = <<>>)

\* The listing command printed no line parseDevices accepts, and the call
\* resolved with the default names.
C30_Witness ==
  /\ listing.pc = "done"
  /\ listing.txt # <<>>
  /\ parseDevices(listing.txt) = [video |-> <<>>, audio |-> <<>>]
  /\ listing.value = DefaultDevices

\* The version probe failed and the call resolved with the mock names.
C30_WitnessNoBinary ==
  /\ listing.pc = "done"
  /\ listing.txt = <<>>
  /\ listing.value = MockDevices

\* ------------------------------------------------- stderr accumulation, checked
\* The diagnostics process p writes to its stderr: each process its own.
StderrOf(p) ==
  IF p = 1 THEN {"Connection refused"}
  ELSE IF p = 2 THEN {"Permission denied"}
  ELSE {"already in use"}

StreamRequest == Request("cam", "mic", TRUE, <<"rtmp://a/live">>)

\* Sessions that start and exit, one after the other or side by side, with the
\* stderr listener of each process accumulating what the 'exit' listener
\* classifies.
NextStderr ==
  \/ \E c \in Calls : WsStart(c, StreamRequest)
  \/ \E c \in Calls : CheckFFmpegDone(c, TRUE, "running")
  \/ \E c \in Calls : LivenessTimer(c)
  \/ \E p \in Calls : \E data \in StderrOf(p) : StderrListener(p, data)
  \/ \E p \in Calls : ProcExit(p, 1, errorOutputs[Accumulator(p)])

SpecStderr == Init /\ [][NextStderr]_vars

\* C31: the text classified at the non-zero exit of a process is all the stderr
\* text that process has delivered, chunks delivered after the 'exit' event
\* included.
C31_ClassifiedFullStderr ==
  \A p \in Calls :
    lastClassified.proc = p => lastClassified.text = errorOutputs[Accumulator(p)]

\* C38: the text classified at the exit of a process holds only stderr output
\* of that process, whatever earlier sessions have written.
C38_ClassifiedOwnStderrOnly ==
  \A p \in Calls :
    lastClassified.proc = p =>
      \A i \in DOMAIN lastClassified.text : lastClassified.text[i] \in StderrOf(p)

\* The second process exited with stderr text of its own classified, after the
\* first process had written stderr text too.
C38_Witness ==
  /\ lastClassified.proc = 2
  /\ lastClassified.text # <<>>
  /\ errorOutputs[1] # <<>>
  /\ procState[1] = "exited"

\* ------------------------------------------------------ slot ownership, checked
\* C32: every spawned process that still runs and has been sent no signal is
\* the process held in the slot.
C32_NoOrphanedEncoder ==
  \A p \in Calls :
    procState[p] = "running" /\ signals[p] = {} => currentProc = p

\* C33: the 'exit' event of a process that the slot does not hold leaves the
\* slot as it is.
C33_ExitClearsOwnSlotOnly ==
  [][\A p \in Calls :
       procState[p] = "running" /\ procState'[p] = "exited" /\ currentProc # p
         => currentProc' = currentProc]_vars

\* C34: a start promise that resolves does so with the process of its own call
\* running and held in the slot; a start promise rejected as a startup failure
\* leaves the process of its call exited or signalled.
C34_SettledStartMatchesProcess ==
  [][\A c \in Calls :
       /\ (pc[c] = "window" /\ pc'[c] = "resolved")
            => procState[c] = "running" /\ currentProc = c
       /\ (pc[c] = "window" /\ pc'[c] = "rejected" /\ result'[c] = StartupFailedMsg)
            => procState[c] # "running" \/ signals[c] # {}]_vars

\* ------------------------------------------------------ notifications, checked
\* The 'stopped' statuses among msgs.
StoppedIn(msgs) == SelectSeq(Statuses(msgs), LAMBDA s : s = "stopped")

\* C35: the exit of a process whose session registered its exit handler sends
\* exactly one 'stopped' status on the connection, however many sessions were
\* started on it before.
C35_OneStoppedPerExit ==
  [][\A p \in Calls :
       Exits(p) /\ pc[p] = "resolved"
         => Len(StoppedIn(sent'[p])) = Len(StoppedIn(sent[p])) + 1]_vars

\* The program with one observer that connects at any moment.
NextObserver ==
  \/ Next
  \/ WsConnect

SpecObserver == Init /\ [][NextObserver]_vars

\* Lifecycle states of session c.
Starting(c) == pc[c] \in {"probing", "window"}
Streaming(c) == pc[c] = "resolved" /\ procState[c] = "running" /\ signals[c] = {}
Stopping(c) == pc[c] # "unused" /\ procState[c] = "running" /\ signals[c] # {}

\* C36: the status sent to a newly connected observer is 'streaming' only if
\* the session in the slot has survived its liveness window, and 'idle' only
\* if no session is starting, streaming or stopping.
C36_GreetingMatchesLifecycle ==
  [][(greeting = "none" /\ greeting' # "none") =>
       /\ greeting' = "streaming" => currentProc # NoProc /\ Streaming(currentProc)
       /\ greeting' = "idle" =>
            \A c \in Calls : ~Starting(c) /\ ~Streaming(c) /\ ~Stopping(c)]_vars

\* ---------------------------------------------------------- chunking, checked
\* The display lines of a 'data' event, without the line each was made for.
Shown(data) == [k \in DOMAIN data.display |-> data.display[k].value]

\* C37: two consecutive stderr chunks yield the display lines that their text
\* yields when it is delivered as one chunk.
C37_LineIntegrityAcrossChunks ==
  [][(lastData.stream = "stderr" /\ lastData'.stream = "stderr")
       => Shown(lastData) \o Shown(lastData')
            = Shown([display |->
                       forEachLine(Split(lastData.chunk \o lastData'.chunk, LF),
                                   displayFor)])]_vars

\* ------------------------------------------------------------ frontend, checked
ServerStatuses == {"idle", "starting", "streaming", "stopping", "stopped"}

\* Values of the form of saveRTMP: platforms, custom URLs (none, one of its
\* own, one that spells a platform URL with its key), stream keys.
Platforms == {"custom", "youtube", "twitch"}
CustomUrls == {<<>>, <<"rtmp://c/live">>, <<"rtmp://live.twitch.tv/app/", "k1">>}
StreamKeys == {"", "k1", "k2"}

\* Indexes removeRTMP is called with: of a row, beyond the rows, negative.
Indexes == -1..MaxSaved

NextFrontend ==
  \/ \E status \in ServerStatuses : OnStatus(status)
  \/ OnError(StartupFailedMsg)
  \/ ErrorTimer
  \/ \E platform \in Platforms, customUrl \in CustomUrls, streamKey \in StreamKeys :
       SaveRTMP(platform, customUrl, streamKey)
  \/ \E index \in Indexes : RemoveRTMP(index)

SpecFrontend == Init /\ [][NextFrontend]_vars

\* C39: the start control is enabled only while the last status received from
\* the server is idle or stopped.
C39_StartEnabledOnlyWhenIdle ==
  ~ui.startDisabled => ui.last \in {"idle", "stopped"}

\* C40: no two configured destinations have the same URL, and a saveRTMP that
\* is rejected as a duplicate leaves the list as it was.
C40_DestinationsUnique ==
  /\ [](\A i, j \in DOMAIN rtmpUrls : rtmpUrls[i].url = rtmpUrls[j].url => i = j)
  /\ [][(ui'.errorTimers = ui.errorTimers + 1
           /\ ui'.lastError \in {DuplicateUrlMsg, DuplicateKeyMsg})
          => rtmpUrls' = rtmpUrls]_vars

\* With a platform's destination second in the list, the add of a URL equal to
\* its URL was rejected.
C40_Witness ==
  /\ ui.lastError = DuplicateUrlMsg
  /\ Len(rtmpUrls) = 2
  /\ rtmpUrls[2].basePlatform = "twitch"
  /\ rtmpUrls[2].url = <<"rtmp://live.twitch.tv/app/", "k1">>
  /\ rtmpUrls[2].number = 1

====
